---- MODULE Spec2Model ----
(***************************************************************************)
(* TechBot: the article history (src/src/article-history.ts), the          *)
(* history-aware selector (src/src/ai-processor.ts) and the run that ties  *)
(* them together (src/src/techbot.ts).                                     *)
(*                                                                         *)
(* Links are numbered 1..NumLinks.  Time is a counter, `now`.  Scores are  *)
(* kept in units of 1/Scale so that contentLength / 200 and 0.5 per        *)
(* keyword stay integers.                                                  *)
(***************************************************************************)
EXTENDS Integers, Sequences, FiniteSets, TLC

VARIABLES
    file,      \* the content of .techbot-history.json
    history,   \* ArticleHistoryManager.history of the live manager
    now,       \* the clock read by new Date() / Date.now(); it stands still here
    last,      \* the manager or selector call made last, with its arguments and result
    run,       \* the program invocation made last (techBot.run or --clear-history)
    inserted,  \* the links added to the live manager since its history was empty
    feed,      \* what fetchRecentArticles returns
    gen,       \* the call of generateContent under way
    fetch,     \* the call of fetchRecentArticles under way
    slack      \* the call of SlackClient.postMessage under way

vars == <<file, history, now, last, run, inserted, feed, gen, fetch, slack>>

(***************************************************************************)
(* Bounds                                                                  *)
(***************************************************************************)
NumLinks == 3
MaxFileLen == 2
MaxArticles == 3
MaxClock == 3
NumFeeds == 3
MaxPosts == 5

Links == 1..NumLinks

(***************************************************************************)
(* Program constants                                                       *)
(***************************************************************************)
MAX_SIZE == 50
FORCE_REFRESH_HOURS == 24

\* "no value": a missing or falsy lastRun of the file
NoTime == 0 - 1

RECURSIVE SeqsUpTo(_, _)
SeqsUpTo(S, n) ==
    IF n = 0 THEN {<<>>}
    ELSE LET shorter == SeqsUpTo(S, n - 1)
         IN  shorter \cup {Append(s, x) : s \in {t \in shorter : Len(t) = n - 1}, x \in S}

Range(s) == {s[i] : i \in 1..Len(s)}

NoDuplicates(s) == \A i, j \in 1..Len(s) : s[i] = s[j] => i = j

(***************************************************************************)
(* JavaScript helpers                                                      *)
(***************************************************************************)
\* Array.prototype.slice(start): a negative start counts from the end, and
\* both ends are clamped to the array.
Slice(s, start) ==
    LET n    == Len(s)
        from == IF start < 0
                  THEN (IF n + start > 0 THEN n + start ELSE 0)
                  ELSE (IF start < n THEN start ELSE n)
    IN  SubSeq(s, from + 1, n)

\* Array.prototype.filter((url) => url !== articleUrl)
Without(s, x) ==
    LET Keep(y) == y # x IN SelectSeq(s, Keep)

(***************************************************************************)
(* ArticleHistoryManager                                                   *)
(***************************************************************************)
\* constructor
NewHistory(t) ==
    [selectedArticles |-> <<>>, lastRun |-> t, maxHistorySize |-> MAX_SIZE]

\* a trim that keeps the oldest entries instead of the newest
TrimKeepsOldest(sel, max) ==
    IF Len(sel) > max THEN SubSeq(sel, 1, max) ELSE sel

\* "Trim if too large": if (length > maxHistorySize) slice(-maxHistorySize)
Trim(sel, max) ==
    IF Len(sel) > max THEN Slice(sel, 0 - max) ELSE sel

\* The file contents fs.readFile / JSON.parse can meet.  kind "missing": no
\* file; "corrupt": not JSON; "nolist": JSON whose selectedArticles is absent
\* or no array; "ok": JSON with a selectedArticles array.  maxHistorySize 0
\* and lastRun NoTime stand for an absent (falsy) field.
FileSizes == {0 - 1, 0, 1, 2}

BrokenFile(kind) ==
    [kind |-> kind, selectedArticles |-> <<>>, lastRun |-> NoTime, maxHistorySize |-> 0]

Files ==
    {BrokenFile(k) : k \in {"missing", "corrupt", "nolist"}}
    \cup [kind : {"ok"}, selectedArticles : SeqsUpTo(Links, MaxFileLen),
          lastRun : {0}, maxHistorySize : FileSizes]
    \cup [kind : {"ok"}, selectedArticles : {<<>>},
          lastRun : {NoTime}, maxHistorySize : FileSizes]

\* loadHistory: the manager's history after loading file f at time t
LoadResult(h, f, t) ==
    IF f.kind = "ok"
      THEN LET max == IF f.maxHistorySize = 0 THEN MAX_SIZE ELSE f.maxHistorySize
           IN  [selectedArticles |-> Trim(f.selectedArticles, max),
                lastRun          |-> IF f.lastRun = NoTime THEN t ELSE f.lastRun,
                maxHistorySize   |-> max]
      ELSE h

\* a save that writes nothing
WriteResultSkipped(f, h, writeOk) == f

\* saveHistory: fs.writeFile(JSON.stringify(this.history)); a failed write is
\* logged and leaves the file as it was
WriteResult(f, h, writeOk) ==
    IF writeOk
      THEN [kind |-> "ok", selectedArticles |-> h.selectedArticles,
            lastRun |-> h.lastRun, maxHistorySize |-> h.maxHistorySize]
      ELSE f

\* hasBeenSelected
hasBeenSelected(h, articleUrl) == articleUrl \in Range(h.selectedArticles)

\* an add that only stamps lastRun
AddResultForgets(h, articleUrl, t) ==
    [selectedArticles |-> h.selectedArticles,
     lastRun          |-> t,
     maxHistorySize   |-> h.maxHistorySize]

\* an add that never trims
AddResultNoTrim(h, articleUrl, t) ==
    [selectedArticles |-> Append(Without(h.selectedArticles, articleUrl), articleUrl),
     lastRun          |-> t,
     maxHistorySize   |-> h.maxHistorySize]

\* addSelectedArticle
AddResult(h, articleUrl, t) ==
    [selectedArticles |->
        Trim(Append(Without(h.selectedArticles, articleUrl), articleUrl),
             h.maxHistorySize),
     lastRun          |-> t,
     maxHistorySize   |-> h.maxHistorySize]

\* a filter that removes nothing
filterKeepsAll(h, articles) == articles

\* filterUnselectedArticles
filterUnselectedArticles(h, articles) ==
    LET Unselected(a) == ~hasBeenSelected(h, a.link) IN SelectSeq(articles, Unselected)

(***************************************************************************)
(* Articles                                                                *)
(***************************************************************************)
Scale == 200
TicksPerDay == 2

\* An Article (types.ts): link, source, pubDate and content.  pubDate is a
\* clock value, or unparsable (dateOk = FALSE, new Date(..).getTime() is NaN);
\* of content the selector reads its length and the technical keywords in it.
NoArticle ==
    [link |-> 0, source |-> "", dateOk |-> FALSE, pubDate |-> 0,
     contentLength |-> 0, keywords |-> 0]

ArticleOf(l) ==
    CASE l % 4 = 1 -> [link |-> l, source |-> "OpenAI", dateOk |-> TRUE, pubDate |-> 0,
                       contentLength |-> 3000, keywords |-> 2]
      [] l % 4 = 2 -> [link |-> l, source |-> "Unknown", dateOk |-> TRUE,
                       pubDate |-> 0 - 12 * TicksPerDay,
                       contentLength |-> 50, keywords |-> 0]
      [] l % 4 = 3 -> [link |-> l, source |-> "TechCrunch", dateOk |-> FALSE, pubDate |-> 0,
                       contentLength |-> 1200, keywords |-> 1]
      [] OTHER     -> [link |-> l, source |-> "GitHub Blog", dateOk |-> TRUE,
                       pubDate |-> 0 - 20 * TicksPerDay,
                       contentLength |-> 0, keywords |-> 0]

Catalogue == {ArticleOf(l) : l \in Links}

HoursPerTick == 24 \div TicksPerDay

\* getTimeSinceLastRun, in ticks
getTimeSinceLastRun(h, t) == t - h.lastRun

\* shouldForceRefresh: hoursSinceLastRun > CONSTANTS.HISTORY.FORCE_REFRESH_HOURS
shouldForceRefresh(h, t) == getTimeSinceLastRun(h, t) * HoursPerTick > FORCE_REFRESH_HOURS

\* the article lists: no article twice
ArticleLists == {p \in SeqsUpTo(Catalogue, MaxArticles) : NoDuplicates(p)}

\* the technicalKeywords of the fallback scoring
NumKeywords == 21

Article(link, source, dateOk, pubDate, contentLength, keywords) ==
    [link |-> link, source |-> source, dateOk |-> dateOk, pubDate |-> pubDate,
     contentLength |-> contentLength, keywords |-> keywords]

\* The articles the fallback scoring is tried on.  Published today: an
\* OpenAI, an Unknown and a TechCrunch article of 3000, 50 and 1200
\* characters with few and many keywords (50 characters hold eight of them at
\* most: api, code, model, library, testing, training, pipeline, security),
\* and an article of The Verge that scores as the plain TechCrunch one.  Of
\* GitHub Blog, with empty content: dated three days ahead, nine days and a
\* half back, ten days back, and with a pubDate that does not parse.
ScoreCatalogue ==
    { Article(11, "OpenAI", TRUE, 0, 3000, 0),
      Article(12, "OpenAI", TRUE, 0, 3000, 1),
      Article(13, "Unknown", TRUE, 0, 50, 0),
      Article(14, "Unknown", TRUE, 0, 50, 8),
      Article(15, "TechCrunch", TRUE, 0, 1200, 0),
      Article(16, "TechCrunch", TRUE, 0, 1200, 6),
      Article(17, "TechCrunch", TRUE, 0, 1200, 7),
      Article(18, "TechCrunch", TRUE, 0, 1200, NumKeywords),
      Article(19, "The Verge", TRUE, 0, 1200, 0),
      Article(20, "GitHub Blog", TRUE, 3 * TicksPerDay, 0, 0),
      Article(21, "GitHub Blog", TRUE, 0 - (9 * TicksPerDay + 1), 0, 0),
      Article(22, "GitHub Blog", TRUE, 0 - 10 * TicksPerDay, 0, 0),
      Article(23, "GitHub Blog", FALSE, 0, 0, 0) }

ScoreLists == {p \in SeqsUpTo(ScoreCatalogue, MaxArticles) : NoDuplicates(p)}

(***************************************************************************)
(* The external ranking call and the parsing of its response               *)
(***************************************************************************)
\* What generateContent(prompt) does: throws, or returns a text (a sequence
\* of characters).
Texts ==
    { <<"1">>, <<"2">>, <<" ", "3", "\n">>, <<"0">>, <<"9", "9", "9">>, <<"-", "1">>,
      <<"2", "a">>, <<"1", ".", "9">>, <<"n", "o">>, <<>> }

AiOutcomes ==
    {[throws |-> TRUE, text |-> <<>>]} \cup [throws : {FALSE}, text : Texts]

\* a call that fails, and responses that name no candidate
FailedRankings ==
    {ai \in AiOutcomes : ai.throws \/ ai.text \in {<<"0">>, <<"9", "9", "9">>, <<"n", "o">>}}

WhiteSpace == {" ", "\t", "\n"}

DigitChars == {"0", "1", "2", "3", "4", "5", "6", "7", "8", "9"}

DigitValue(c) ==
    CASE c = "0" -> 0 [] c = "1" -> 1 [] c = "2" -> 2 [] c = "3" -> 3 [] c = "4" -> 4
      [] c = "5" -> 5 [] c = "6" -> 6 [] c = "7" -> 7 [] c = "8" -> 8 [] c = "9" -> 9

RECURSIVE TrimStart(_)
TrimStart(s) ==
    IF s # <<>> /\ Head(s) \in WhiteSpace THEN TrimStart(Tail(s)) ELSE s

RECURSIVE TrimEnd(_)
TrimEnd(s) ==
    IF s # <<>> /\ s[Len(s)] \in WhiteSpace THEN TrimEnd(SubSeq(s, 1, Len(s) - 1)) ELSE s

\* String.prototype.trim
trim(s) == TrimEnd(TrimStart(s))

\* the longest prefix of s made of decimal digits
RECURSIVE DigitPrefix(_)
DigitPrefix(s) ==
    IF s # <<>> /\ Head(s) \in DigitChars THEN <<Head(s)>> \o DigitPrefix(Tail(s)) ELSE <<>>

RECURSIVE DecimalValue(_)
DecimalValue(d) ==
    IF d = <<>> THEN 0
    ELSE 10 * DecimalValue(SubSeq(d, 1, Len(d) - 1)) + DigitValue(d[Len(d)])

\* parseInt(string) with no radix, on decimal input: leading white space is
\* skipped, one sign is read, then the longest run of digits; what follows
\* the digits is ignored, and no digit at all gives NaN.
parseInt(s) ==
    LET t        == TrimStart(s)
        negative == t # <<>> /\ Head(t) = "-"
        signed   == t # <<>> /\ Head(t) \in {"-", "+"}
        digits   == DigitPrefix(IF signed THEN Tail(t) ELSE t)
    IN  IF digits = <<>>
          THEN [isNaN |-> TRUE, value |-> 0]
          ELSE [isNaN |-> FALSE,
                value |-> IF negative THEN 0 - DecimalValue(digits) ELSE DecimalValue(digits)]

(***************************************************************************)
(* Fallback scoring.  The code holds it twice: in the branch taken on an   *)
(* invalid response and in the catch branch.                               *)
(***************************************************************************)
\* Math.random() * 2 lies in [0, 2): in units of 1/Scale the draws kept are
\* the smallest and the largest, and `boost` names the candidate that draws
\* the largest (0: none does).
randomBonusWide(boost, i) == IF boost = i THEN 3 * Scale - 1 ELSE 0

randomBonus(boost, i) == IF boost = i THEN 2 * Scale - 1 ELSE 0

\* sourceScores[article.source] || 3, invalid-response branch
sourceScoresInvalid(source) ==
    CASE source \in {"OpenAI", "Google AI"} -> 10
      [] source \in {"Google Research", "Berkeley AI Research", "CMU ML Blog", "arXiv"} -> 9
      [] source \in {"Microsoft Research", "MIT Technology Review", "Stanford AI Lab",
                     "GitHub Blog", "PyTorch Blog", "TensorFlow Blog", "Hugging Face"} -> 8
      [] source \in {"Stack Overflow", "Dev.to", "Medium - Towards Data Science",
                     "Real Python"} -> 7
      [] source = "Ars Technica" -> 6
      [] source \in {"The Verge", "TechCrunch", "VentureBeat", "Wired"} -> 5
      [] OTHER -> 3

\* a table of the catch branch that was edited apart from the other
sourceScoresCatchDrifted(source) ==
    CASE source = "OpenAI" -> 10
      [] source = "The Verge" -> 6
      [] source \in {"TechCrunch", "VentureBeat", "Wired"} -> 5
      [] source = "GitHub Blog" -> 8
      [] OTHER -> 3

\* sourceScores[article.source] || 3, catch branch
sourceScoresCatch(source) ==
    CASE source \in {"OpenAI", "Google AI"} -> 10
      [] source \in {"Google Research", "Berkeley AI Research", "CMU ML Blog", "arXiv"} -> 9
      [] source \in {"Microsoft Research", "MIT Technology Review", "Stanford AI Lab"} -> 8
      [] source = "GitHub Blog" -> 8
      [] source \in {"Stack Overflow", "Dev.to", "Medium - Towards Data Science",
                     "Real Python"} -> 7
      [] source \in {"PyTorch Blog", "TensorFlow Blog", "Hugging Face"} -> 8
      [] source = "Ars Technica" -> 6
      [] source \in {"The Verge", "TechCrunch", "VentureBeat", "Wired"} -> 5
      [] OTHER -> 3

Min(a, b) == IF a < b THEN a ELSE b
Max(a, b) == IF a > b THEN a ELSE b

\* Math.floor((Date.now() - new Date(pubDate).getTime()) / one day)
daysSincePublished(article, t) == (t - article.pubDate) \div TicksPerDay

\* Math.max(0, 10 - daysSincePublished), in whole points.  An unparsable
\* pubDate makes getTime(), daysSincePublished and Math.max(0, 10 - NaN) NaN.
recencyScore(article, t) ==
    [isNaN |-> ~article.dateOk,
     value |-> IF article.dateOk THEN Max(0, 10 - daysSincePublished(article, t)) ELSE 0]

\* The score of one article, in units of 1/Scale; a NaN recency score makes
\* the sum NaN.
ScoreOf(sourceScore, article, t, bonus) ==
    LET recency        == recencyScore(article, t)
        contentScore   == Min(5 * Scale, article.contentLength)
        technicalScore == article.keywords * (Scale \div 2)
    IN  [isNaN |-> recency.isNaN,
         value |-> IF recency.isNaN
                     THEN 0
                     ELSE Scale * sourceScore + Scale * recency.value + contentScore
                          + technicalScore + bonus]

scoreInvalid(article, t, bonus) == ScoreOf(sourceScoresInvalid(article.source), article, t, bonus)

scoreCatch(article, t, bonus) == ScoreOf(sourceScoresCatch(article.source), article, t, bonus)

\* scoredArticles.sort((a, b) => b.score - a.score)[0]: the sort is stable, so
\* the first candidate of the highest score wins.  With a NaN score the
\* comparator is not a consistent one and the order is implementation-defined:
\* any candidate may come first.
BestIndices(scores) ==
    LET n == Len(scores)
    IN  IF \E i \in 1..n : scores[i].isNaN
          THEN 1..n
          ELSE {i \in 1..n : /\ \A k \in 1..n : scores[k].value <= scores[i].value
                             /\ \A k \in 1..(i - 1) : scores[k].value < scores[i].value}

fallbackInvalid(candidates, t, boost) ==
    BestIndices([i \in 1..Len(candidates) |->
                    scoreInvalid(candidates[i], t, randomBonus(boost, i))])

fallbackCatch(candidates, t, boost) ==
    BestIndices([i \in 1..Len(candidates) |->
                    scoreCatch(candidates[i], t, randomBonus(boost, i))])

(***************************************************************************)
(* selectMostRelevantArticle                                               *)
(***************************************************************************)
\* candidates that ignore the history
candidatesUnfiltered(articles, h) == articles

\* candidates that fall back to the whole list one article too early
candidatesFallBackEarly(articles, h) ==
    LET unselectedArticles == filterUnselectedArticles(h, articles)
    IN  IF Len(unselectedArticles) > 1 THEN unselectedArticles ELSE articles

\* candidateArticles: the unselected articles, or all of them when none is
\* unselected
candidateArticles(articles, h) ==
    LET unselectedArticles == filterUnselectedArticles(h, articles)
    IN  IF Len(unselectedArticles) > 0 THEN unselectedArticles ELSE articles

\* candidateArticles[index] of JavaScript (index from 0): undefined outside
\* the array
At(candidates, index) ==
    IF index \in 0..(Len(candidates) - 1) THEN candidates[index + 1] ELSE NoArticle

\* the response names an article: !(isNaN(selectedIndex) || selectedIndex < 0
\* || selectedIndex >= candidateArticles.length)
ValidIndexOffByOne(parsed, n) ==
    ~parsed.isNaN /\ parsed.value - 1 >= 0 /\ parsed.value - 1 <= n

ValidIndex(parsed, n) ==
    ~parsed.isNaN /\ parsed.value - 1 >= 0 /\ parsed.value - 1 < n

\* a short circuit that is never taken
SingleCandidateNever(candidates) == FALSE

\* if (candidateArticles.length === 1) return candidateArticles[0]
SingleCandidate(candidates) == Len(candidates) = 1

Outcome(error, article, candidates, path, aiCalls, consulted) ==
    [error |-> error, article |-> article, candidates |-> candidates, path |-> path,
     aiCalls |-> aiCalls, consulted |-> consulted]

\* an emptiness check that also rejects a list of one
NoArticlesProvidedOrOne(articles) == Len(articles) <= 1

\* if (articles.length === 0) throw new Error("No articles provided for selection")
NoArticlesProvided(articles) == Len(articles) = 0

\* The outcomes of selectMostRelevantArticle(articles, historyManager) at time
\* t when the external call ends as `ai` and the jitter falls as `boost`.
\* path: "empty" (throws "No articles provided for selection"), "single",
\* "ai" (valid index), "invalid" and "catch" (fallback scoring).
selectMostRelevantArticle(articles, h, t, ai, boost) ==
    IF NoArticlesProvided(articles)
      THEN {Outcome(TRUE, NoArticle, <<>>, "empty", 0, FALSE)}
      ELSE
        LET candidates    == candidateArticles(articles, h)
            parsed        == parseInt(trim(ai.text))
            selectedIndex == parsed.value - 1
        IN  IF SingleCandidate(candidates)
              THEN {Outcome(FALSE, candidates[1], candidates, "single", 0, TRUE)}
            ELSE IF ai.throws
              THEN {Outcome(FALSE, candidates[i], candidates, "catch", 1, TRUE) :
                       i \in fallbackCatch(candidates, t, boost)}
            ELSE IF ~ValidIndex(parsed, Len(candidates))
              THEN {Outcome(FALSE, candidates[i], candidates, "invalid", 1, TRUE) :
                       i \in fallbackInvalid(candidates, t, boost)}
            ELSE {Outcome(FALSE, At(candidates, selectedIndex), candidates, "ai", 1, TRUE)}

(***************************************************************************)
(* generateContent (src/src/ai-processor.ts): one call, its HTTP requests  *)
(* and its waits                                                           *)
(***************************************************************************)
MAX_RETRIES == 3
BASE_RETRY_DELAY == 10000

Callers == {"generateSummary", "generateDiscussionQuestion", "selectMostRelevantArticle"}

\* what the API answers to one request: fetch rejects, or a response with a
\* status and, when the status is OK, a body
Rejected == [kind |-> "rejected", status |-> 0, body |-> "none", text |-> <<>>]

Answered(status, body, text) ==
    [kind |-> "answered", status |-> status, body |-> body, text |-> text]

\* bodies of an OK response that give no text: not JSON, no candidates, a
\* candidate without content, a content without parts
BodiesWithoutText == {"notJson", "noCandidates", "noContent", "noParts"}

Responses ==
    {Rejected}
        \cup {Answered(status, "none", <<>>) : status \in {429, 500, 403}}
        \cup {Answered(200, body, <<>>) : body \in BodiesWithoutText \cup {"partWithoutText"}}
        \cup {Answered(200, "text", text) : text \in {<<"1">>, <<"n", "o">>}}

NoResult == [kind |-> "none", text |-> <<>>, message |-> ""]
Returned(text) == [kind |-> "value", text |-> text, message |-> ""]
ReturnedUndefined == [kind |-> "undefined", text |-> <<>>, message |-> ""]
Thrown(message) == [kind |-> "error", text |-> <<>>, message |-> message]

\* the catch of generateContent: whatever was thrown, a new Error
Caught(message) == "Failed to generate AI content"

\* an error thrown in the call of depth retryCount passes the catch of that
\* call and of every call above it
RECURSIVE Propagate(_, _)
Propagate(message, catches) ==
    IF catches = 0 THEN message ELSE Propagate(Caught(message), catches - 1)

\* a retry limit that lets one more request through
MayRetryOnceMore(retryCount) == retryCount <= MAX_RETRIES
\* if (retryCount < 3)
MayRetry(retryCount) == retryCount < MAX_RETRIES

RECURSIVE Pow2(_)
Pow2(n) == IF n = 0 THEN 1 ELSE 2 * Pow2(n - 1)

\* Math.pow(2, retryCount) * 10000, in milliseconds
waitTime(retryCount) == Pow2(retryCount) * BASE_RETRY_DELAY

NoGen ==
    [pc |-> "idle", caller |-> "none", apiKey |-> TRUE, retryCount |-> 0,
     responses |-> <<>>, waits |-> <<>>, result |-> NoResult]

\* the message of the error the try block throws on a response, "" when it
\* throws nothing
ErrorOn(resp, retryCount) ==
    IF resp.kind = "rejected" THEN "fetch failed"
    ELSE IF resp.status = 429
        THEN IF MayRetry(retryCount) THEN ""
             ELSE "Rate limited after 3 retries - please try again later"
    ELSE IF resp.status # 200 THEN "API request failed"
    ELSE IF resp.body = "notJson" THEN "Unexpected token"
    ELSE IF resp.body \in {"noCandidates", "noContent"} THEN "No valid response from API"
    ELSE IF resp.body = "noParts" THEN "Cannot read properties of undefined"
    ELSE ""

\* generateContent(prompt): the call checks the API key and sends the request
GenerateContent(caller, apiKey) ==
    /\ gen.pc \in {"idle", "returned", "thrown"}
    /\ gen' = IF apiKey
                THEN [NoGen EXCEPT !.pc = "fetch", !.caller = caller]
                ELSE [NoGen EXCEPT !.pc = "thrown", !.caller = caller, !.apiKey = FALSE,
                        !.result = Thrown(Propagate(
                            "GEMINI_API_KEY not found in environment variables", 1))]
    /\ UNCHANGED <<file, history, now, last, run, inserted, feed, fetch, slack>>

\* the request settles
GenResponse(resp) ==
    /\ gen.pc = "fetch"
    /\ LET responses == Append(gen.responses, resp)
           message == ErrorOn(resp, gen.retryCount)
       IN  gen' =
             IF message # ""
               THEN [gen EXCEPT !.pc = "thrown", !.responses = responses,
                       !.result = Thrown(Propagate(message, gen.retryCount + 1))]
             ELSE IF resp.status = 429
               THEN [gen EXCEPT !.pc = "delay", !.responses = responses,
                       !.waits = Append(@, waitTime(gen.retryCount))]
             ELSE [gen EXCEPT !.pc = "returned", !.responses = responses,
                     !.result = IF resp.body = "text" THEN Returned(resp.text)
                                ELSE ReturnedUndefined]
    /\ UNCHANGED <<file, history, now, last, run, inserted, feed, fetch, slack>>

\* the delay is over: generateContent(prompt, retryCount + 1)
GenRetry ==
    /\ gen.pc = "delay"
    /\ gen' = [gen EXCEPT !.pc = "fetch", !.retryCount = @ + 1]
    /\ UNCHANGED <<file, history, now, last, run, inserted, feed, fetch, slack>>

(***************************************************************************)
(* fetchRecentArticles (src/src/rss-processor.ts): the feeds are requested *)
(* together and settle in any order                                        *)
(***************************************************************************)
DEFAULT_ARTICLES_PER_FEED == 5

Feeds == 1..NumFeeds

\* the items a feed can carry: one of its own, one whose title other feeds
\* carry too (in another spelling), one off topic, one without a link
OwnItem(i) ==
    [title |-> [text |-> "own", feed |-> i], link |-> i, pubDate |-> i % 2,
     complete |-> TRUE, relevant |-> TRUE]

SharedItem(i) ==
    [title |-> [text |-> IF i % 2 = 1 THEN "AI News" ELSE "ai news ", feed |-> 0],
     link |-> 100 + i, pubDate |-> 1, complete |-> TRUE, relevant |-> TRUE]

OffTopicItem(i) ==
    [title |-> [text |-> "off topic", feed |-> i], link |-> 200 + i, pubDate |-> 1,
     complete |-> TRUE, relevant |-> FALSE]

IncompleteItem(i) ==
    [title |-> [text |-> "no link", feed |-> i], link |-> 0, pubDate |-> 1,
     complete |-> FALSE, relevant |-> TRUE]

FeedFailure == [ok |-> FALSE, items |-> <<>>]

\* what parser.parseURL does for feed i: it throws, or returns the feed
FeedAnswer(i, choice) ==
    CASE choice = 0 -> FeedFailure
      [] choice = 1 -> [ok |-> TRUE, items |-> <<>>]
      [] choice = 2 -> [ok |-> TRUE, items |-> <<OwnItem(i)>>]
      [] choice = 3 -> [ok |-> TRUE, items |-> <<SharedItem(i), OwnItem(i)>>]
      [] OTHER -> [ok |-> TRUE, items |-> <<OwnItem(i), OffTopicItem(i), IncompleteItem(i)>>]

FeedAnswers == {[i \in Feeds |-> FeedAnswer(i, choice[i])] : choice \in [Feeds -> 0..4]}

\* title.toLowerCase().trim()
toLowerCaseTrim(text) ==
    IF text \in {"AI News", "ai news "} THEN "ai news" ELSE text

TitleKey(article) == [text |-> toLowerCaseTrim(article.title.text), feed |-> article.title.feed]

\* processFeedItems: items with a title, a link and a date
processFeedItems(items) == SelectSeq(items, LAMBDA item : item.complete)

\* removeDuplicates: the first article of each title
removeDuplicates(articles) ==
    LET keep[k \in 0..Len(articles)] ==
          IF k = 0 THEN <<>>
          ELSE IF \E j \in 1..(k - 1) : TitleKey(articles[j]) = TitleKey(articles[k])
                 THEN keep[k - 1]
                 ELSE Append(keep[k - 1], articles[k])
    IN  keep[Len(articles)]

\* isAIRelated
isAIRelated(article) == article.relevant

\* sort((a, b) => b.pubDate - a.pubDate): stable, newest first
sortNewestFirst(articles) ==
    LET insert(sorted, a) ==
          LET before == SelectSeq(sorted, LAMBDA b : b.pubDate >= a.pubDate)
              after == SelectSeq(sorted, LAMBDA b : b.pubDate < a.pubDate)
          IN  before \o <<a>> \o after
        sorted[k \in 0..Len(articles)] ==
          IF k = 0 THEN <<>> ELSE insert(sorted[k - 1], articles[k])
    IN  sorted[Len(articles)]

\* Math.max(DEFAULT_ARTICLES_PER_FEED, Math.ceil(maxArticles / rssFeeds.length))
articlesPerFeed(maxArticles) ==
    Max(DEFAULT_ARTICLES_PER_FEED, (maxArticles + NumFeeds - 1) \div NumFeeds)

PendingFeed == [settled |-> FALSE, success |-> FALSE, articles |-> <<>>]

\* fetchSingleFeed: the articles of the feed, or nothing when anything throws
fetchSingleFeed(answer, perFeed) ==
    IF answer.ok
      THEN [settled |-> TRUE, success |-> TRUE,
            articles |-> processFeedItems(SubSeq(answer.items, 1, Min(Len(answer.items), perFeed * 2)))]
      ELSE [settled |-> TRUE, success |-> FALSE, articles |-> <<>>]

\* results taken in the order in which the feeds settled
PromiseAllAsSettled(slots, order) == [k \in 1..Len(order) |-> slots[order[k]]]
\* Promise.all: the results in the order of the promises
PromiseAll(slots, order) == slots

\* feedResults.forEach: the articles of the successful results, in order
collect(feedResults) ==
    LET all[k \in 0..Len(feedResults)] ==
          IF k = 0 THEN <<>>
          ELSE IF feedResults[k].success THEN all[k - 1] \o feedResults[k].articles
          ELSE all[k - 1]
    IN  all[Len(feedResults)]

\* what follows the collection: duplicates out, relevant only, newest first,
\* the limit
process(allArticles, maxArticles) ==
    LET sorted == sortNewestFirst(SelectSeq(removeDuplicates(allArticles), isAIRelated))
    IN  SubSeq(sorted, 1, Min(Len(sorted), maxArticles))

NoFetch ==
    [pc |-> "idle", answers |-> <<>>, maxArticles |-> 0, slots |-> <<>>,
     order |-> <<>>, allArticles |-> <<>>, returned |-> <<>>]

\* fetchRecentArticles(limit): every feed is requested
FetchRecentArticles(answers, maxArticles) ==
    /\ fetch.pc = "idle"
    /\ fetch' = [NoFetch EXCEPT !.pc = "pending", !.answers = answers,
                   !.maxArticles = maxArticles,
                   !.slots = [i \in Feeds |-> PendingFeed]]
    /\ UNCHANGED <<file, history, now, last, run, inserted, feed, gen, slack>>

\* the request of feed i settles
FeedSettles(i) ==
    /\ fetch.pc = "pending"
    /\ ~fetch.slots[i].settled
    /\ fetch' = [fetch EXCEPT
                   !.slots[i] = fetchSingleFeed(fetch.answers[i], articlesPerFeed(fetch.maxArticles)),
                   !.order = Append(@, i)]
    /\ UNCHANGED <<file, history, now, last, run, inserted, feed, gen, slack>>

\* every request has settled: the rest of fetchRecentArticles
FetchCompletes ==
    /\ fetch.pc = "pending"
    /\ \A i \in Feeds : fetch.slots[i].settled
    /\ LET allArticles == collect(PromiseAll(fetch.slots, fetch.order))
       IN  fetch' = [fetch EXCEPT !.pc = "done", !.allArticles = allArticles,
                       !.returned = process(allArticles, fetch.maxArticles)]
    /\ UNCHANGED <<file, history, now, last, run, inserted, feed, gen, slack>>

(***************************************************************************)
(* SlackClient.postMessage (src/unnamed/part_003)                          *)
(***************************************************************************)
PostAnswers == {"ok", "not_ok", "not_in_channel", "channel_not_found", "rejected"}
JoinAnswers == {"ok", "not_ok", "rejected"}

NoSlack ==
    [pc |-> "idle", message |-> 0, depth |-> 0, posts |-> 0, joins |-> 0,
     error |-> "none", logged |-> "none"]

\* the error postMessage ends with: a call that retried rethrows its own
\* not_in_channel error, whatever the retry threw
SlackError(depth, error) == IF depth = 0 THEN error ELSE "not_in_channel"

\* console.error("Failed to join channel:", joinError): what the join or the
\* retry threw
JoinErrorLogged(depth, error) == IF depth = 0 THEN "none" ELSE error

\* postMessage(message): the call from TechBot
PostMessage(message) ==
    /\ slack.pc \in {"idle", "returned", "thrown"}
    /\ slack' = [NoSlack EXCEPT !.pc = "post", !.message = message]
    /\ UNCHANGED <<file, history, now, last, run, inserted, feed, gen, fetch>>

\* chat.postMessage answers
ChatPostMessage(answer) ==
    /\ slack.pc = "post"
    /\ slack.posts < MaxPosts
    /\ slack' =
         IF answer = "ok" THEN [slack EXCEPT !.pc = "returned", !.posts = @ + 1]
         ELSE IF answer = "not_in_channel" THEN [slack EXCEPT !.pc = "join", !.posts = @ + 1]
         ELSE [slack EXCEPT !.pc = "thrown", !.posts = @ + 1,
                 !.error = SlackError(slack.depth, answer),
                 !.logged = JoinErrorLogged(slack.depth, answer)]
    /\ UNCHANGED <<file, history, now, last, run, inserted, feed, gen, fetch>>

\* conversations.join answers; after a join, this.postMessage(message)
ConversationsJoin(answer) ==
    /\ slack.pc = "join"
    /\ slack' =
         IF answer = "ok"
           THEN [slack EXCEPT !.pc = "post", !.joins = @ + 1, !.depth = @ + 1]
           ELSE [slack EXCEPT !.pc = "thrown", !.joins = @ + 1, !.error = "not_in_channel",
                   !.logged = answer]
    /\ UNCHANGED <<file, history, now, last, run, inserted, feed, gen, fetch>>

(***************************************************************************)
(* State                                                                   *)
(***************************************************************************)
NoAi == [throws |-> TRUE, text |-> <<>>]

NoOutcome == Outcome(FALSE, NoArticle, <<>>, "none", 0, FALSE)

\* `last`: op is the call ("load", "save", "add", "clear", "select"), pre the
\* manager's history when it was made, link the argument of add, and
\* articles, ai, boost, out the arguments and the outcome of select.
Call(op, pre, link, articles, ai, boost, out) ==
    [op |-> op, pre |-> pre, link |-> link, articles |-> articles, ai |-> ai,
     boost |-> boost, out |-> out]

ManagerCall(op, pre, link) == Call(op, pre, link, <<>>, NoAi, 0, NoOutcome)

\* `run`: op is "run" or "clear"; of a run, pool is what fetchRecentArticles
\* returned, loaded the history after loadHistory, selected the article the
\* selector returned, saved whether the write of the history file succeeded
\* and result how the run ended ("noArticles": returned early; "done";
\* "genError": summary or question generation threw after the save).
\* previous is the article selected by the invocation just before when that
\* was a run that fetched the same pool, and NoArticle otherwise.
Invocation(op, result, pool, loaded, selected, saved, previous) ==
    [op |-> op, result |-> result, pool |-> pool, loaded |-> loaded,
     selected |-> selected, saved |-> saved, previous |-> previous]

NoInvocation ==
    Invocation("none", "none", <<>>, NewHistory(0), NoArticle, FALSE, NoArticle)

\* `inserted`: fromEmpty holds while the manager's list was empty at some
\* point and has since been changed by addSelectedArticle alone, each time
\* with a link not added before; links are those links, oldest first.
NoneInserted == [fromEmpty |-> TRUE, links |-> <<>>]

InsertedAfterLoad(ins, f, h) ==
    IF f.kind = "ok"
      THEN [fromEmpty |-> h.selectedArticles = <<>>, links |-> <<>>]
      ELSE ins

InsertedAfterAdd(ins, articleUrl) ==
    IF ins.fromEmpty /\ articleUrl \notin Range(ins.links)
      THEN [fromEmpty |-> TRUE, links |-> Append(ins.links, articleUrl)]
      ELSE [fromEmpty |-> FALSE, links |-> <<>>]

\* a manager just constructed, whatever the history file holds
ManagerInit ==
    /\ file \in Files
    /\ now = 0
    /\ history = NewHistory(0)
    /\ last = ManagerCall("none", NewHistory(0), 0)
    /\ run = NoInvocation
    /\ inserted = NoneInserted
    /\ feed = <<>>
    /\ gen = NoGen
    /\ fetch = NoFetch
    /\ slack = NoSlack

(***************************************************************************)
(* The manager's operations                                                *)
(***************************************************************************)
\* new ArticleHistoryManager()
NewManager ==
    /\ history' = NewHistory(now)
    /\ last' = ManagerCall("new", history, 0)
    /\ inserted' = NoneInserted
    /\ UNCHANGED <<file, now, run, feed, gen, fetch, slack>>

LoadHistory ==
    /\ history' = LoadResult(history, file, now)
    /\ last' = ManagerCall("load", history, 0)
    /\ inserted' = InsertedAfterLoad(inserted, file, history')
    /\ UNCHANGED <<file, now, run, feed, gen, fetch, slack>>

SaveHistory(writeOk) ==
    /\ file' = WriteResult(file, history, writeOk)
    /\ last' = ManagerCall("save", history, 0)
    /\ UNCHANGED <<history, now, run, inserted, feed, gen, fetch, slack>>

AddSelectedArticle(articleUrl) ==
    /\ history' = AddResult(history, articleUrl, now)
    /\ last' = ManagerCall("add", history, articleUrl)
    /\ inserted' = InsertedAfterAdd(inserted, articleUrl)
    /\ UNCHANGED <<file, now, run, feed, gen, fetch, slack>>

ClearHistory(writeOk) ==
    /\ history' = NewHistory(now)
    /\ file' = WriteResult(file, history', writeOk)
    /\ last' = ManagerCall("clear", history, 0)
    /\ inserted' = NoneInserted
    /\ UNCHANGED <<now, run, feed, gen, fetch, slack>>

\* a selector that records its selection itself
SelectRecording(articles, ai, boost) ==
    /\ \E out \in selectMostRelevantArticle(articles, history, now, ai, boost) :
          /\ last' = Call("select", history, 0, articles,
                          IF out.aiCalls > 0 THEN ai ELSE NoAi,
                          IF out.path \in {"invalid", "catch"} THEN boost ELSE 0,
                          out)
          /\ history' = IF out.error THEN history
                                     ELSE AddResult(history, out.article.link, now)
    /\ UNCHANGED <<file, now, run, inserted, feed, gen, fetch, slack>>

\* selectMostRelevantArticle(articles, historyManager)
Select(articles, ai, boost) ==
    /\ \E out \in selectMostRelevantArticle(articles, history, now, ai, boost) :
          last' = Call("select", history, 0, articles,
                       IF out.aiCalls > 0 THEN ai ELSE NoAi,
                       IF out.path \in {"invalid", "catch"} THEN boost ELSE 0,
                       out)
    /\ UNCHANGED <<file, history, now, run, inserted, feed, gen, fetch, slack>>

\* The process is interrupted while saveHistory runs.  fs.writeFile opens
\* the history file for writing, which truncates it, and then writes the
\* text: the interruption leaves the file as it was (before the open), empty
\* or cut short (no JSON), or written in full.  The manager is gone with the
\* process; the next one is new.
SaveInterrupted ==
    /\ file' \in {file, BrokenFile("corrupt"), WriteResult(file, history, TRUE)}
    /\ last' = ManagerCall("interrupted", history, 0)
    /\ history' = NewHistory(now)
    /\ inserted' = NoneInserted
    /\ UNCHANGED <<now, run, feed, gen, fetch, slack>>

\* the clock moves between two calls
Tick ==
    /\ now < MaxClock
    /\ now' = now + 1
    /\ UNCHANGED <<file, history, last, run, inserted, feed, gen, fetch, slack>>

(***************************************************************************)
(* The program                                                             *)
(***************************************************************************)
\* fetchRecentArticles: no two articles of one title, newest first (an
\* unparsable date makes the order implementation-defined)
FetchedPools ==
    {p \in ArticleLists :
        (\A i \in 1..Len(p) : p[i].dateOk)
              => \A i, j \in 1..Len(p) : i < j => p[i].pubDate >= p[j].pubDate}

\* the program before its first invocation: any history file, and feeds
\* that return the same pool at every fetch
Init ==
    /\ file \in Files
    /\ now = 0
    /\ history = NewHistory(0)
    /\ last = ManagerCall("none", NewHistory(0), 0)
    /\ run = NoInvocation
    /\ inserted = NoneInserted
    /\ feed \in FetchedPools
    /\ gen = NoGen
    /\ fetch = NoFetch
    /\ slack = NoSlack

\* a run that a failed write of the history file aborts
RunResultSaveThrows(writeOk, genOk) ==
    IF ~writeOk THEN "saveError" ELSE IF genOk THEN "done" ELSE "genError"

\* How a run that selected an article ends: saveHistory catches the error of
\* a failed write, an error of generateSummary or generateDiscussionQuestion
\* is thrown on.
RunResult(writeOk, genOk) == IF genOk THEN "done" ELSE "genError"

\* a fetch that is never taken as empty
NoArticlesFoundNever(articles) == FALSE

\* if (articles.length === 0) return
NoArticlesFound(articles) == Len(articles) = 0

\* techBot.run
Run(ai, boost, writeOk, genOk) ==
    LET pool     == feed
        loaded   == LoadResult(NewHistory(now), file, now)
        previous == IF run.op = "run" /\ run.result \in {"done", "genError"}
                       /\ run.pool = pool
                      THEN run.selected ELSE NoArticle
    IN  IF NoArticlesFound(pool)
          THEN /\ history' = loaded
               /\ run' = Invocation("run", "noArticles", pool, loaded, NoArticle, FALSE,
                                    previous)
               /\ inserted' = InsertedAfterLoad(NoneInserted, file, loaded)
               /\ UNCHANGED <<file, now, last, feed, gen, fetch, slack>>
          ELSE \E out \in selectMostRelevantArticle(pool, loaded, now, ai, boost) :
                 /\ history' = AddResult(loaded, out.article.link, now)
                 /\ file' = WriteResult(file, history', writeOk)
                 /\ run' = Invocation("run", RunResult(writeOk, genOk),
                                      pool, loaded, out.article, writeOk, previous)
                 /\ inserted' = InsertedAfterAdd(InsertedAfterLoad(NoneInserted, file, loaded),
                                                out.article.link)
                 /\ UNCHANGED <<now, last, feed, gen, fetch, slack>>

\* index.ts --clear-history
ClearCommand(writeOk) ==
    /\ history' = NewHistory(now)
    /\ file' = WriteResult(file, history', writeOk)
    /\ run' = Invocation("clear", "done", <<>>, NewHistory(now), NoArticle, writeOk,
                         NoArticle)
    /\ inserted' = NoneInserted
    /\ UNCHANGED <<now, last, feed, gen, fetch, slack>>

\* The external call and the jitter as the runs meet them: the indices a
\* pool can hold, an invalid response and a failing call.
RunInputs ==
    {<<[throws |-> FALSE, text |-> t], 0>> : t \in {<<"1">>, <<"2">>, <<" ", "3", "\n">>}}
    \cup {<<[throws |-> FALSE, text |-> <<"0">>], 0>>}
    \cup {<<[throws |-> TRUE, text |-> <<>>], b>> : b \in {0, 2}}

(***************************************************************************)
(* Specifications                                                          *)
(***************************************************************************)
\* the program: runs and history clearing
Next ==
    \/ \E in \in RunInputs, writeOk \in BOOLEAN, genOk \in BOOLEAN :
          Run(in[1], in[2], writeOk, genOk)
    \/ \E writeOk \in BOOLEAN : ClearCommand(writeOk)

Spec == Init /\ [][Next]_vars

\* one manager used through its methods
HistoryNext ==
    \/ NewManager
    \/ LoadHistory
    \/ \E writeOk \in BOOLEAN : SaveHistory(writeOk)
    \/ \E articleUrl \in Links : AddSelectedArticle(articleUrl)
    \/ \E writeOk \in BOOLEAN : ClearHistory(writeOk)

HistorySpec == ManagerInit /\ [][HistoryNext]_vars

\* The selector called on a manager, before or after loadHistory.  Select
\* reads history and now and writes last alone, so a call right after another
\* reaches nothing new: one call is followed here by a load or nothing.
SelectNext ==
    \/ LoadHistory
    \/ /\ last.op # "select"
       /\ \E articles \in ArticleLists, ai \in AiOutcomes, boost \in 0..MaxArticles :
             Select(articles, ai, boost)

SelectSpec == ManagerInit /\ [][SelectNext]_vars

\* the manager used through its methods while time passes
TimedNext ==
    \/ HistoryNext
    \/ Tick

TimedSpec == ManagerInit /\ [][TimedNext]_vars

\* the manager used through its methods by processes that can be interrupted
InterruptNext ==
    \/ HistoryNext
    \/ SaveInterrupted

InterruptSpec == ManagerInit /\ [][InterruptNext]_vars

\* The selection of a run at any time after the last one: the history is
\* loaded and the selector called; the clock stands still once it was called.
RefreshRankings == {ai \in AiOutcomes : ai.throws \/ ai.text \in {<<"1">>, <<"0">>}}

RefreshNext ==
    \/ LoadHistory
    \/ last.op # "select" /\ Tick
    \/ /\ last.op # "select"
       /\ \E articles \in ArticleLists, ai \in RefreshRankings :
             Select(articles, ai, 0)

RefreshSpec == ManagerInit /\ [][RefreshNext]_vars

\* the selector on a new manager, no file on disk: every article is unseen,
\* and the external ranking gives no valid index
ScoreInit ==
    /\ ManagerInit
    /\ file = BrokenFile("missing")

ScoreNext ==
    /\ last.op # "select"
    /\ \E articles \in ScoreLists, ai \in FailedRankings, boost \in 0..MaxArticles :
          Select(articles, ai, boost)

ScoreSpec == ScoreInit /\ [][ScoreNext]_vars

\* runs over one fetched pool, from a history file that holds no link, every
\* write succeeding
FreshInit ==
    /\ Init
    /\ file.kind = "ok" => file.selectedArticles = <<>>

FreshNext ==
    \E in \in RunInputs, genOk \in BOOLEAN : Run(in[1], in[2], TRUE, genOk)

FreshSpec == FreshInit /\ [][FreshNext]_vars

\* the services start idle, no file on disk
ServiceInit ==
    /\ ManagerInit
    /\ file = BrokenFile("missing")

\* one call of generateContent after another
GenNext ==
    \/ \E caller \in Callers, apiKey \in BOOLEAN : GenerateContent(caller, apiKey)
    \/ \E resp \in Responses : GenResponse(resp)
    \/ GenRetry

GenSpec == ServiceInit /\ [][GenNext]_vars

\* one call of fetchRecentArticles
FetchNext ==
    \/ \E answers \in FeedAnswers, maxArticles \in {2, 20} :
          FetchRecentArticles(answers, maxArticles)
    \/ \E i \in Feeds : FeedSettles(i)
    \/ FetchCompletes

FetchSpec == ServiceInit /\ [][FetchNext]_vars

\* one call of postMessage after another
SlackNext ==
    \/ \E message \in Links : PostMessage(message)
    \/ \E answer \in PostAnswers : ChatPostMessage(answer)
    \/ \E answer \in JoinAnswers : ConversationsJoin(answer)

SlackSpec == ServiceInit /\ [][SlackNext]_vars

(***************************************************************************)
(* Properties                                                              *)
(***************************************************************************)
Selected == last.op = "select"

Seen == Range(last.pre.selectedArticles)

SomeUnseen == \E i \in 1..Len(last.articles) : last.articles[i].link \notin Seen

\* C1: when at least one article of a non-empty list has a link that is not in
\* the history, the selector returns an article whose link is not in the
\* history, whatever the external call does.
C1_SelectsUnseen ==
    (Selected /\ SomeUnseen)
        => /\ ~last.out.error
           /\ ~hasBeenSelected(last.pre, last.out.article.link)

\* a failing external call, a list with a seen article and two unseen ones
C1_Witness ==
    /\ Selected /\ SomeUnseen
    /\ last.out.path = "catch"
    /\ Len(last.out.candidates) >= 2
    /\ \E i \in 1..Len(last.articles) : last.articles[i].link \in Seen

RanTwice ==
    /\ run.op = "run"
    /\ run.result \in {"done", "genError"}
    /\ run.previous # NoArticle
    /\ Len(run.pool) >= 2
    /\ \A i, j \in 1..Len(run.pool) : run.pool[i].link = run.pool[j].link => i = j

LastN(s, n) == SubSeq(s, Len(s) - n + 1, Len(s))

\* C3 as stated: the list never holds more than maxHistorySize entries, and a
\* load of a file that holds more keeps the last maxHistorySize of them.
C3_Original ==
    /\ Len(history.selectedArticles) <= history.maxHistorySize
    /\ (/\ last.op = "load"
        /\ file.kind = "ok"
        /\ history.maxHistorySize >= 0
        /\ Len(file.selectedArticles) > history.maxHistorySize)
          => history.selectedArticles = LastN(file.selectedArticles, history.maxHistorySize)

\* C4 as stated: the list never holds a link twice.
C4_Original == NoDuplicates(history.selectedArticles)

\* C5: after maxHistorySize + k pairwise distinct links were added to an
\* empty history (k >= 0), the list is the last maxHistorySize links added,
\* in the order they were added.
C5_FifoEviction ==
    (/\ inserted.fromEmpty
     /\ history.maxHistorySize >= 0
     /\ Len(inserted.links) >= history.maxHistorySize)
        => history.selectedArticles = LastN(inserted.links, history.maxHistorySize)

\* three links added to an empty history of size two: the first was evicted
C5_Witness ==
    /\ inserted.fromEmpty
    /\ history.maxHistorySize = 2
    /\ Len(inserted.links) = 3
    /\ last.op = "add"

Added == last.op = "add"

\* C6 as stated: adding a link that is in the list leaves the length as it
\* was, puts the link last and keeps the other links in their order; adding
\* it once more changes nothing.
C6_Original ==
    (Added /\ last.link \in Range(last.pre.selectedArticles))
        => /\ Len(history.selectedArticles) = Len(last.pre.selectedArticles)
           /\ history.selectedArticles[Len(history.selectedArticles)] = last.link
           /\ Without(history.selectedArticles, last.link)
                = Without(last.pre.selectedArticles, last.link)
           /\ AddResult(history, last.link, now).selectedArticles = history.selectedArticles

\* C7 as stated: adding a link to a list of exactly maxHistorySize entries
\* gives maxHistorySize entries, the link last and the former first entry gone.
C7_Original ==
    (Added /\ Len(last.pre.selectedArticles) = last.pre.maxHistorySize)
        => /\ Len(history.selectedArticles) = last.pre.maxHistorySize
           /\ history.selectedArticles[Len(history.selectedArticles)] = last.link
           /\ last.pre.selectedArticles[1] \notin Range(history.selectedArticles)

\* C7, amended: adding a link that is not in the list to a list of exactly
\* maxHistorySize entries gives maxHistorySize entries: the former list
\* without its first entry, followed by the link.
C7_Amended ==
    (/\ Added
     /\ Len(last.pre.selectedArticles) = last.pre.maxHistorySize
     /\ last.link \notin Range(last.pre.selectedArticles))
        => /\ Len(history.selectedArticles) = last.pre.maxHistorySize
           /\ history.selectedArticles = Append(Tail(last.pre.selectedArticles), last.link)

\* a new link added to a full list of two different links
C7_Witness ==
    /\ Added
    /\ last.pre.maxHistorySize = 2
    /\ Len(last.pre.selectedArticles) = 2
    /\ NoDuplicates(last.pre.selectedArticles)
    /\ last.link \notin Range(last.pre.selectedArticles)

RECURSIVE Unseen(_, _)
Unseen(articles, seen) ==
    IF articles = <<>> THEN <<>>
    ELSE IF Head(articles).link \in seen THEN Unseen(Tail(articles), seen)
    ELSE <<Head(articles)>> \o Unseen(Tail(articles), seen)

\* C8: the candidates are the articles whose link is not in the history, in
\* their order, when there is one, and the whole list as given when there is
\* none.
C8_Candidates ==
    (Selected /\ ~last.out.error)
        => last.out.candidates =
              IF SomeUnseen THEN Unseen(last.articles, Seen) ELSE last.articles

\* three articles, the middle one seen: two candidates are left, in order
C8_Witness ==
    /\ Selected
    /\ Len(last.articles) = 3
    /\ last.articles[2].link \in Seen
    /\ last.out.candidates = <<last.articles[1], last.articles[3]>>

\* C9: on an empty list the selector fails before any external call and
\* without reading or changing the history, and it fails on no other input.
C9_EmptyInputError ==
    Selected
        => /\ last.articles = <<>>
              => /\ last.out.error
                 /\ last.out.aiCalls = 0
                 /\ ~last.out.consulted
                 /\ history = last.pre
           /\ last.out.error => last.articles = <<>>

\* the selector called with an empty list on a loaded history
C9_Witness ==
    /\ Selected
    /\ last.articles = <<>>
    /\ last.out.error
    /\ last.pre.selectedArticles # <<>>

\* C10: on a non-empty list the selector returns one article, an element of
\* the list.
C10_ReturnsMember ==
    (Selected /\ last.articles # <<>>)
        => /\ ~last.out.error
           /\ last.out.article \in Range(last.articles)

\* an out-of-range response on three candidates
C10_Witness ==
    /\ Selected
    /\ last.out.path = "invalid"
    /\ Len(last.out.candidates) = 3
    /\ last.out.article \in Range(last.articles)

Fallback == Selected /\ last.out.path \in {"invalid", "catch"}

Winners(candidates, indices) == {candidates[i] : i \in indices}

\* C11: a ranking call that throws and one whose response names no candidate
\* are handled alike: no error reaches the caller, both branches score the
\* same candidate list by the same formula, and for the same jitter the
\* article one branch returns is the article the other branch returns.
C11_FallbackEquivalence ==
    /\ (Selected /\ Len(last.articles) >= 2 /\ Len(last.out.candidates) >= 2
          /\ (last.ai.throws \/ ~ValidIndex(parseInt(trim(last.ai.text)),
                                            Len(last.out.candidates))))
          => Fallback
    /\ Fallback
          => LET c == last.out.candidates
             IN  /\ ~last.out.error
                 /\ c = candidateArticles(last.articles, last.pre)
                 /\ \A i \in 1..Len(c) :
                       scoreInvalid(c[i], now, randomBonus(last.boost, i))
                         = scoreCatch(c[i], now, randomBonus(last.boost, i))
                 /\ Winners(c, fallbackInvalid(c, now, last.boost))
                      = Winners(c, fallbackCatch(c, now, last.boost))
                 /\ last.out.article
                      \in Winners(c, IF last.out.path = "invalid"
                                       THEN fallbackCatch(c, now, last.boost)
                                       ELSE fallbackInvalid(c, now, last.boost))

\* the response "999" on three candidates, the jitter deciding for the second
C11_Witness ==
    /\ Fallback
    /\ last.out.path = "invalid"
    /\ last.ai.text = <<"9", "9", "9">>
    /\ Len(last.out.candidates) = 3
    /\ last.boost = 2
    /\ last.out.article = last.out.candidates[2]
    /\ fallbackCatch(last.out.candidates, now, 0) = {1}

\* the text is a decimal numeral of a value in 1..n
IsIndexText(s, n) ==
    /\ s # <<>>
    /\ \A i \in 1..Len(s) : s[i] \in DigitChars
    /\ DecimalValue(s) \in 1..n

\* C12 as stated: the response selects the k-th candidate when its trimmed
\* text is the integer k, 1 <= k <= number of candidates, and every other
\* response, a text that only begins with digits included, leads to the
\* fallback scoring.
C12_Original ==
    (Selected /\ last.out.aiCalls = 1 /\ ~last.ai.throws)
        => LET c == last.out.candidates
               t == trim(last.ai.text)
           IN  IF IsIndexText(t, Len(c))
                 THEN last.out.path = "ai" /\ last.out.article = c[DecimalValue(t)]
                 ELSE last.out.path = "invalid"

OneCandidate == Len(last.articles) = 1 \/ Len(Unseen(last.articles, Seen)) = 1

\* C13: with one article in the list, or one candidate left after the
\* filtering, the selector returns it with no external call and no scoring;
\* otherwise it makes the external call once at most.
C13_SingleShortCircuit ==
    Selected
        => /\ OneCandidate
              => /\ ~last.out.error
                 /\ last.out.path = "single"
                 /\ last.out.aiCalls = 0
                 /\ last.out.article = IF Len(last.articles) = 1
                                         THEN last.articles[1]
                                         ELSE Unseen(last.articles, Seen)[1]
           /\ last.out.aiCalls <= 1

\* three articles, two of them seen: the third is returned without a call
C13_Witness ==
    /\ Selected
    /\ Len(last.articles) = 3
    /\ Len(Unseen(last.articles, Seen)) = 1
    /\ last.out.path = "single"
    /\ last.out.aiCalls = 0
    /\ last.out.article = Unseen(last.articles, Seen)[1]

\* the score the last call gave its i-th candidate
ScoreGiven(i) ==
    IF last.out.path = "invalid"
      THEN scoreInvalid(last.out.candidates[i], now, randomBonus(last.boost, i))
      ELSE scoreCatch(last.out.candidates[i], now, randomBonus(last.boost, i))

\* C14 as stated: the fallback score of every article is a finite number that
\* is not negative, also with a pubDate that does not parse and with empty
\* content, and a pubDate that does not parse gives the recency score 0.
C14_Original ==
    Fallback
        => \A i \in 1..Len(last.out.candidates) :
              /\ ~ScoreGiven(i).isNaN
              /\ ScoreGiven(i).value >= 0
              /\ ~last.out.candidates[i].dateOk
                    => recencyScore(last.out.candidates[i], now)
                         = [isNaN |-> FALSE, value |-> 0]

\* C15 as stated, on the pubDates that parse: the recency score is
\* max(0, 10 - whole days since pubDate) and lies in 0..10; it is 0 from ten
\* days on, 10 for an article published now, and for an article dated in the
\* future no more than for one published now.
C15_Original ==
    Fallback
        => \A i \in 1..Len(last.out.candidates) :
              LET a == last.out.candidates[i]
                  r == recencyScore(a, now)
              IN  a.dateOk
                    => /\ ~r.isNaN
                       /\ r.value \in 0..10
                       /\ daysSincePublished(a, now) >= 10 => r.value = 0
                       /\ a.pubDate = now => r.value = 10
                       /\ a.pubDate > now => r.value <= 10

\* C16 as stated: the article returned on the fallback path has a total score
\* at least that of every other candidate, and of the candidates of the
\* highest score it is the first in the list.
C16_Original ==
    Fallback
        => \E i \in 1..Len(last.out.candidates) :
              /\ last.out.article = last.out.candidates[i]
              /\ \A k \in 1..Len(last.out.candidates) :
                    /\ ~ScoreGiven(k).isNaN /\ ~ScoreGiven(i).isNaN
                    /\ ScoreGiven(k).value <= ScoreGiven(i).value
                    /\ k < i => ScoreGiven(k).value < ScoreGiven(i).value

\* three unseen articles of OpenAI, Unknown and TechCrunch with 3000, 50 and
\* 1200 characters, all published today, and a ranking call that fails
ScenarioA ==
    /\ Selected
    /\ last.out.path = "catch"
    /\ Len(last.articles) = 3
    /\ last.out.candidates = last.articles
    /\ {<<last.articles[i].source, last.articles[i].contentLength>> : i \in 1..3}
         = {<<"OpenAI", 3000>>, <<"Unknown", 50>>, <<"TechCrunch", 1200>>}
    /\ \A i \in 1..3 : /\ last.articles[i].dateOk
                       /\ daysSincePublished(last.articles[i], now) = 0

KeywordsOf(source) ==
    (CHOOSE a \in Range(last.articles) : a.source = source).keywords

\* C17 as stated: in that scenario the OpenAI article is returned for every
\* jitter and every keyword content of the three articles.
C17_Original == ScenarioA => last.out.article.source = "OpenAI"

\* C17, amended: in that scenario the OpenAI article is returned for every
\* jitter when the content of the TechCrunch article holds at most six more
\* of the technical keywords than the content of the OpenAI article.
C17_Amended ==
    (ScenarioA /\ KeywordsOf("TechCrunch") - KeywordsOf("OpenAI") <= 6)
        => last.out.article.source = "OpenAI"

\* the TechCrunch article holds six keywords more and draws the highest jitter
C17_Witness ==
    /\ ScenarioA
    /\ KeywordsOf("TechCrunch") - KeywordsOf("OpenAI") = 6
    /\ KeywordsOf("Unknown") = 8
    /\ last.boost \in 1..3
    /\ last.articles[last.boost].source = "TechCrunch"
    /\ last.out.article.source = "OpenAI"

\* C18: a call of the selector leaves the history as it was
\* (selectedArticles, lastRun and maxHistorySize) on every path, and it does
\* not write the history file.
C18_HistoryUntouched ==
    [][(last'.op = "select" /\ last.op # "select")
          => (history' = history /\ file' = file)]_vars

\* the selector returned the AI's choice on a history that holds links
C18_Witness ==
    /\ Selected
    /\ last.out.path = "ai"
    /\ last.pre.selectedArticles # <<>>
    /\ history = last.pre

\* C19 as stated: lastRun changes in addSelectedArticle alone: a save right
\* after the load of an existing file and a clearHistory leave the lastRun
\* of the file as it was.
C19_Original ==
    [][(/\ file.kind = "ok"
        /\ file.lastRun # NoTime
        /\ \/ last'.op = "clear"
           \/ last'.op = "save" /\ last.op = "load")
          => (file'.kind = "ok" /\ file'.lastRun = file.lastRun)]_vars

\* C20 as stated: after loadHistory on a file that is missing, is not JSON
\* or has no selectedArticles list, the manager holds an empty list and the
\* maxHistorySize 50.
C20_Original ==
    (last.op = "load" /\ file.kind \in {"missing", "corrupt", "nolist"})
        => /\ history.selectedArticles = <<>>
           /\ history.maxHistorySize = MAX_SIZE

RanAndSelected == run.op = "run" /\ run.selected # NoArticle

\* C21: a failed write of the history file does not abort the run: no error
\* of the write ends it, the manager's history holds the selection as
\* addSelectedArticle recorded it, and the run goes on to the generation and
\* ends as that ends.
C21_WriteFailureTolerated ==
    (RanAndSelected /\ ~run.saved)
        => /\ run.result \in {"done", "genError"}
           /\ history = AddResult(run.loaded, run.selected.link, now)
           /\ history.maxHistorySize >= 1
                 => hasBeenSelected(history, run.selected.link)

\* a run whose write failed ended well: the link is in memory, not in the file
C21_Witness ==
    /\ RanAndSelected
    /\ ~run.saved
    /\ run.result = "done"
    /\ hasBeenSelected(history, run.selected.link)
    /\ file.kind = "ok"
    /\ run.selected.link \notin Range(file.selectedArticles)

\* C22 as stated: when the process is interrupted during a save, the history
\* file holds the complete state of before or the complete new state.
C22_Original ==
    [][last'.op = "interrupted"
          => file' \in {file, WriteResult(file, history, TRUE)}]_vars

Persisted(link) == file.kind = "ok" /\ link \in Range(file.selectedArticles)

\* C23 as stated: a run either completes with the selected link in the
\* history file, or ends with an error and the file as it was before the run;
\* when the generation fails after the selection, the link is not persisted.
C23_Original ==
    [][(run'.op = "run" /\ run'.selected # NoArticle)
          => IF run'.result = "done"
               THEN file'.kind = "ok" /\ run'.selected.link \in Range(file'.selectedArticles)
               ELSE file' = file]_vars

\* C23, amended: a run that selected an article has written the history file
\* before the generation starts.  When the write succeeds the file holds the
\* manager's history, stamped with the time of the selection and, for a
\* maxHistorySize of one or more, with the selected link last, whether the
\* run completes or the generation fails; the file is as it was before the
\* run only when the write fails or no article was fetched.
C23_Amended ==
    [][run'.op = "run"
          => IF run'.selected # NoArticle /\ run'.saved
               THEN /\ file'.kind = "ok"
                    /\ file'.selectedArticles = history'.selectedArticles
                    /\ file'.maxHistorySize = run'.loaded.maxHistorySize
                    /\ file'.lastRun = now
                    /\ run'.loaded.maxHistorySize >= 1
                          => /\ file'.selectedArticles # <<>>
                             /\ file'.selectedArticles[Len(file'.selectedArticles)]
                                  = run'.selected.link
               ELSE file' = file]_vars

\* the generation failed after a new link was selected and written
C23_Witness ==
    /\ RanAndSelected
    /\ run.result = "genError"
    /\ run.saved
    /\ ~hasBeenSelected(run.loaded, run.selected.link)
    /\ Persisted(run.selected.link)

SomeUnseenLoaded ==
    \E i \in 1..Len(run.pool) : ~hasBeenSelected(run.loaded, run.pool[i].link)

C24_Original ==
    (Selected /\ last.articles # <<>>)
        => /\ shouldForceRefresh(last.pre, now) => last.out.candidates = last.articles
           /\ (~shouldForceRefresh(last.pre, now) /\ SomeUnseen)
                 => last.out.candidates = Unseen(last.articles, Seen)

\* C25: one call of generateContent sends at most four requests; every
\* request but the last was answered 429, and the waits before the retries
\* are 10, 20 and 40 seconds; a call without API key sends nothing; a call
\* whose last response is a rejection, a status other than OK, a body that is
\* not JSON or lacks candidates, content or parts, or a fourth 429, has
\* thrown "Failed to generate AI content"; a body with a text is returned.
RetryWaits == <<10000, 20000, 40000>>

GenFinished == gen.pc \in {"returned", "thrown"}

FailedResponse(resp) ==
    \/ resp.kind = "rejected"
    \/ resp.status # 200
    \/ resp.body \in {"notJson", "noCandidates", "noContent", "noParts"}

RECURSIVE ArticlesOfFeeds(_, _)
ArticlesOfFeeds(answers, n) ==
    IF n = 0 THEN <<>>
    ELSE ArticlesOfFeeds(answers, n - 1)
           \o (IF answers[n].ok
                 THEN SelectSeq(answers[n].items, LAMBDA item : item.complete)
                 ELSE <<>>)

C29_OrderIndependent ==
    fetch.pc = "done"
        => /\ fetch.allArticles = ArticlesOfFeeds(fetch.answers, NumFeeds)
           /\ \A i \in Feeds :
                 fetch.answers[i].ok
                     => \A k \in 1..Len(fetch.answers[i].items) :
                           fetch.answers[i].items[k].complete
                               => fetch.answers[i].items[k] \in Range(fetch.allArticles)
           /\ \A k \in 1..Len(fetch.allArticles) :
                 \E i \in Feeds :
                    fetch.answers[i].ok /\ fetch.allArticles[k] \in Range(fetch.answers[i].items)
           /\ fetch.returned = process(ArticlesOfFeeds(fetch.answers, NumFeeds), fetch.maxArticles)

\* the last feed settled first and failed, the others carry the same title
C29_Witness ==
    /\ fetch.pc = "done"
    /\ fetch.order[1] = NumFeeds
    /\ fetch.order[NumFeeds] = 1
    /\ ~fetch.answers[NumFeeds].ok
    /\ fetch.answers[1].ok /\ fetch.answers[2].ok
    /\ Len(fetch.answers[1].items) = 2 /\ Len(fetch.answers[2].items) = 2
    /\ Len(fetch.returned) = 2

\* C30 as stated: one call of postMessage sends chat.postMessage at most
\* twice, the post and one retry after the join.
C30_Original == slack.posts <= 2

\* C27: with a pool of N articles of pairwise distinct links, N at most
\* maxHistorySize, a run that loads fewer than N links selects an article of
\* the pool whose link the history does not hold and appends it to the file:
\* the links of the file stay pairwise distinct, one more with each run, so
\* the first N runs select each article of the pool once.
PoolDistinct == \A i, j \in 1..Len(feed) : feed[i].link = feed[j].link => i = j

C27_DistinctRuns ==
    (/\ run.op = "run"
     /\ PoolDistinct
     /\ Len(feed) <= run.loaded.maxHistorySize
     /\ Len(run.loaded.selectedArticles) < Len(feed))
        => /\ run.selected \in Range(feed)
           /\ run.selected.link \notin Range(run.loaded.selectedArticles)
           /\ file.kind = "ok"
           /\ file.selectedArticles = Append(run.loaded.selectedArticles, run.selected.link)
           /\ NoDuplicates(file.selectedArticles)
           /\ Range(file.selectedArticles) \subseteq {feed[i].link : i \in 1..Len(feed)}

\* the third run over a pool of three has selected the last article left
C27_Witness ==
    /\ run.op = "run"
    /\ PoolDistinct
    /\ Len(feed) = MaxArticles
    /\ Len(feed) <= run.loaded.maxHistorySize
    /\ Len(file.selectedArticles) = Len(feed)
    /\ NoDuplicates(file.selectedArticles)
    /\ run.previous # NoArticle

\* C28: a run that fetched no article ends normally with nothing selected,
\* the manager's history as loaded and the file as it was.
C28_NoArticlesNoChange ==
    [][(feed = <<>> /\ run'.op = "run" /\ run' # run)
          => /\ run'.result = "noArticles"
             /\ run'.selected = NoArticle
             /\ ~run'.saved
             /\ history' = run'.loaded
             /\ file' = file]_vars

\* a run without articles over a history file that holds links
C28_Witness ==
    /\ run.op = "run"
    /\ run.result = "noArticles"
    /\ feed = <<>>
    /\ file.kind = "ok"
    /\ file.selectedArticles # <<>>
    /\ history.selectedArticles = file.selectedArticles

====
